---- MODULE Spec2Model ----
(***************************************************************************)
(* Impact-Mapper: the analyzer (entity discovery, import extraction,       *)
(* reference tracing, dependency graph, ImpactAnalyzer) and the module     *)
(* resolver, as a state machine over a project directory on disk.          *)
(*                                                                         *)
(* A path is a sequence of tokens: directory and file names, and the       *)
(* extensions ".js", ".ts", ... as tokens of their own, so "/p/lib/a.js"   *)
(* is <<"p", "lib", "a", ".js">>.  An import specifier is a sequence of    *)
(* tokens too: "./a" is <<".", "a">>, "../a.js" is <<"..", "a", ".js">>,   *)
(* "/p/a" is <<"/", "p", "a">> and the package "lodash" is <<"lodash">>.   *)
(***************************************************************************)
EXTENDS Integers, Sequences, FiniteSets, TLC

VARIABLES
    disk,       \* the project directory: files in directory-listing order
    edits,      \* number of changes made to the project so far
    files,      \* ImpactAnalyzer.files
    entityMap,  \* ImpactAnalyzer.entityMap, in Map iteration order
    scans,      \* number of scan() calls so far
    op,         \* the last operation called
    ret,        \* what the last analyzer call returned
    reads       \* the files the last analyzer call read

vars == <<disk, edits, files, entityMap, scans, op, ret, reads>>

----------------------------------------------------------------------------
(* Sequences *)

Range(s) == {s[i] : i \in 1..Len(s)}

RECURSIVE Flatten(_)
Flatten(ss) == IF ss = <<>> THEN <<>> ELSE Head(ss) \o Flatten(Tail(ss))

IsPrefix(s, t) == Len(s) <= Len(t) /\ SubSeq(t, 1, Len(s)) = s

\* String.prototype.endsWith
endsWith(s, suffix) ==
    Len(suffix) <= Len(s) /\ SubSeq(s, Len(s) - Len(suffix) + 1, Len(s)) = suffix

\* String.prototype.startsWith, for a one-character prefix: the specifier's
\* first token is "." or ".." (both start with '.'), or "/"
startsWithDot(spec) == spec # <<>> /\ Head(spec) \in {".", ".."}
startsWithSlash(spec) == spec # <<>> /\ Head(spec) = "/"

----------------------------------------------------------------------------
(* Paths *)

extensions == <<".js", ".jsx", ".ts", ".tsx", ".mjs", ".cjs">>

ExtTokens == Range(extensions)

\* the project root, an absolute path
projectRoot == <<"p">>

RECURSIVE StripExts(_)
StripExts(p) ==
    IF p # <<>> /\ p[Len(p)] \in ExtTokens THEN StripExts(SubSeq(p, 1, Len(p) - 1))
    ELSE p

\* drop the last segment (a name and the extensions that follow it)
DropSegment(p) ==
    LET q == StripExts(p) IN IF q = <<>> THEN <<>> ELSE SubSeq(q, 1, Len(q) - 1)

\* path.dirname
dirname(p) == DropSegment(p)

RECURSIVE Walk(_, _)
\* path.resolve's normalisation: "." stays, ".." goes up one segment
Walk(base, rest) ==
    IF rest = <<>> THEN base
    ELSE IF Head(rest) = "." THEN Walk(base, Tail(rest))
    ELSE IF Head(rest) = ".." THEN Walk(DropSegment(base), Tail(rest))
    ELSE Walk(Append(base, Head(rest)), Tail(rest))

\* path.resolve(dir, specifier)
pathResolve(dir, spec) ==
    IF startsWithSlash(spec) THEN Walk(<<>>, Tail(spec)) ELSE Walk(dir, spec)

\* path.join(projectRoot, moduleName)
pathJoin(root, rel) == Walk(root, rel)

RECURSIVE CommonLen(_, _)
CommonLen(s, t) ==
    IF s = <<>> \/ t = <<>> \/ Head(s) # Head(t) THEN 0
    ELSE 1 + CommonLen(Tail(s), Tail(t))

\* path.relative(from, to): ".." for every segment of `from` that `to` does not
\* share, then the rest of `to`
pathRelative(from, to) ==
    LET c0 == CommonLen(from, to)
        \* a shared token run ends inside a segment when an extension follows it
        cut(p) == c0 < Len(p) /\ p[c0 + 1] \in ExtTokens
        c  == IF c0 > 0 /\ (cut(from) \/ cut(to)) THEN c0 - 1 ELSE c0
        up == Cardinality({i \in (c + 1)..Len(from) : from[i] \notin ExtTokens})
    IN  [i \in 1..up |-> ".."] \o SubSeq(to, c + 1, Len(to))

\* resolver.js getModuleName
getModuleName(filePath, root) == pathRelative(root, filePath)

----------------------------------------------------------------------------
(* The project on disk *)

\* disk is a sequence of [path, src]: the regular files, in the order a
\* directory walk lists them; src is the file's source text, a sequence of
\* statements, one per line.

FileAt(p) == CHOOSE f \in Range(disk) : f.path = p

\* fs.existsSync(p) && fs.statSync(p).isFile()
isFile(p) == \E f \in Range(disk) : f.path = p

\* fs.existsSync(p) && fs.statSync(p).isDirectory(): the project root and the
\* directories above it, and every directory that holds a file
isDirectory(p) ==
    \/ IsPrefix(p, projectRoot)
    \/ \E f \in Range(disk) :
          /\ IsPrefix(p, f.path)
          /\ Len(p) < Len(f.path)
          /\ f.path[Len(p) + 1] \notin ExtTokens

\* fs.existsSync
existsSync(p) == isFile(p) \/ isDirectory(p)

\* the directories getAllJsFiles ignores
IgnoredDirs == {"node_modules", ".git", "dist", "build"}

\* the extensions getAllJsFiles selects
GlobExts == {".js", ".jsx", ".mjs", ".cjs"}

\* getAllJsFiles(projectRoot): the files under the root that the pattern
\* selects, in listing order
getAllJsFiles(root) ==
    LET Selected(f) ==
            /\ IsPrefix(root, f.path) /\ Len(f.path) > Len(root) + 1
            /\ f.path[Len(f.path)] \in GlobExts
            /\ \A i \in (Len(root) + 1)..(Len(f.path) - 2) :
                    f.path[i] \notin IgnoredDirs
        sel == SelectSeq(disk, Selected)
    IN  [i \in 1..Len(sel) |-> sel[i].path]

----------------------------------------------------------------------------
(* resolver.js *)

NULL == <<"null">>

RECURSIVE FirstExt(_, _, _)
\* the first extension, from position i on, whose candidate exists
FirstExt(base, stem, i) ==
    IF i > Len(extensions) THEN NULL
    ELSE IF existsSync(base \o stem \o <<extensions[i]>>)
         THEN base \o stem \o <<extensions[i]>>
         ELSE FirstExt(base, stem, i + 1)

\* resolveImport with the index stage tried before the extension stage
resolveImportIndexFirst(specifier, fromFile, root) ==
    IF ~startsWithDot(specifier) /\ ~startsWithSlash(specifier) THEN NULL
    ELSE
        LET basePath == pathResolve(dirname(fromFile), specifier)
            index    == IF isDirectory(basePath)
                        THEN FirstExt(basePath, <<"index">>, 1) ELSE NULL
        IN  IF isFile(basePath) THEN basePath
            ELSE IF index # NULL THEN index
            ELSE FirstExt(basePath, <<>>, 1)

resolveImport(specifier, fromFile, root) ==
    IF ~startsWithDot(specifier) /\ ~startsWithSlash(specifier) THEN NULL
    ELSE
        LET dir      == dirname(fromFile)
            basePath == pathResolve(dir, specifier)
            withExt  == FirstExt(basePath, <<>>, 1)
        IN  IF isFile(basePath) THEN basePath
            ELSE IF withExt # NULL THEN withExt
            ELSE IF isDirectory(basePath) THEN FirstExt(basePath, <<"index">>, 1)
            ELSE NULL

----------------------------------------------------------------------------
(* Source text and its syntax tree *)

\* A statement is one line of source.  form names its shape, name the
\* identifier it is about, spec the module specifier of an import.
Stmt(form, name, spec) == [form |-> form, name |-> name, spec |-> spec]

NoSpec == <<>>

\* function foo() {}                   FunctionDeclaration
FunctionDecl(n)      == Stmt("function", n, NoSpec)
\* class foo {}                        ClassDeclaration
ClassDecl(n)         == Stmt("class", n, NoSpec)
\* const foo = 1;                      VariableDeclaration, literal initializer
VarDecl(n)           == Stmt("var", n, NoSpec)
\* const foo = () => {};               VariableDeclaration, arrow initializer
ArrowDecl(n)         == Stmt("arrow", n, NoSpec)
\* const foo = class {};               VariableDeclaration, class initializer
ClassExprDecl(n)     == Stmt("classexpr", n, NoSpec)
\* export function foo() {}            ExportNamedDeclaration with a declaration
ExportFunction(n)    == Stmt("exportfunction", n, NoSpec)
\* export default function foo() {}    ExportDefaultDeclaration
ExportDefault(n)     == Stmt("exportdefault", n, NoSpec)
\* export { foo };                     ExportNamedDeclaration with a specifier
ExportList(n)        == Stmt("exportlist", n, NoSpec)
\* module.exports = { foo };           AssignmentExpression, object literal
ModuleExports(n)     == Stmt("moduleexports", n, NoSpec)
\* module.exports = foo;               AssignmentExpression, identifier
ModuleExportsId(n)   == Stmt("moduleexportsid", n, NoSpec)
\* class Sub extends foo {}            ClassDeclaration, superClass
ClassExtends(n)      == Stmt("extends", n, NoSpec)
\* function fn(foo) {}                 FunctionDeclaration, params
FunctionParam(n)     == Stmt("param", n, NoSpec)
\* import { foo } from './a';          ImportDeclaration, ImportSpecifier
ImportNamed(n, sp)   == Stmt("importnamed", n, sp)
\* import foo from './a';              ImportDeclaration, ImportDefaultSpecifier
ImportDefault(n, sp) == Stmt("importdefault", n, sp)
\* const { foo } = require('./a');     require with an ObjectPattern target
RequireNames(n, sp)  == Stmt("requirenames", n, sp)
\* const foo = require('./a');         require with an Identifier target
RequireWhole(n, sp)  == Stmt("requirewhole", n, sp)
\* foo();                              CallExpression, callee
Call(n)              == Stmt("call", n, NoSpec)
\* new foo();                          NewExpression, callee
New(n)               == Stmt("new", n, NoSpec)
\* foo.x;                              MemberExpression, object
Member(n)            == Stmt("member", n, NoSpec)
\* use(foo);                           CallExpression, argument
Argument(n)          == Stmt("argument", n, NoSpec)
\* function (                          text the parser rejects
SyntaxError          == Stmt("syntaxerror", "", NoSpec)

\* parseFile(filePath): readFileSync throws when the file is gone, parser.parse
\* throws on text it rejects
Readable(p) == isFile(p)
Parses(p)   == Readable(p) /\ \A i \in 1..Len(FileAt(p).src) : FileAt(p).src[i] # SyntaxError
parseFile(p) == FileAt(p).src

\* An Identifier node as traverse visits it: its name, its parent's type, the
\* parent's field it sits in, and its column.  The parser gives a shorthand
\* property ({ foo }) a key and a value node, and an import specifier without
\* `as` a local and an imported node, each pair at the same position.  The
\* parent of a name in { foo }, pattern or literal, is an ObjectProperty node:
\* parseFile enables the plugins jsx, classProperties, optionalChaining and
\* nullishCoalescingOperator, not estree, whose name for it is Property.
Ident(n, parent, slot, col) == [name |-> n, parent |-> parent, slot |-> slot, column |-> col]

IdentifiersOf(st) ==
    CASE st.form = "function" -> <<Ident(st.name, "FunctionDeclaration", "id", 9)>>
      [] st.form = "class" -> <<Ident(st.name, "ClassDeclaration", "id", 6)>>
      [] st.form \in {"var", "arrow", "classexpr"} ->
            <<Ident(st.name, "VariableDeclarator", "id", 6)>>
      [] st.form = "exportfunction" -> <<Ident(st.name, "FunctionDeclaration", "id", 16)>>
      [] st.form = "exportdefault" -> <<Ident(st.name, "FunctionDeclaration", "id", 24)>>
      [] st.form = "exportlist" ->
            <<Ident(st.name, "ExportSpecifier", "local", 9),
              Ident(st.name, "ExportSpecifier", "exported", 9)>>
      [] st.form = "moduleexports" ->
            <<Ident("module", "MemberExpression", "object", 0),
              Ident("exports", "MemberExpression", "property", 7),
              Ident(st.name, "ObjectProperty", "key", 19),
              Ident(st.name, "ObjectProperty", "value", 19)>>
      [] st.form = "moduleexportsid" ->
            <<Ident("module", "MemberExpression", "object", 0),
              Ident("exports", "MemberExpression", "property", 7),
              Ident(st.name, "AssignmentExpression", "right", 17)>>
      [] st.form = "extends" ->
            <<Ident("Sub", "ClassDeclaration", "id", 6),
              Ident(st.name, "ClassDeclaration", "superClass", 18)>>
      [] st.form = "param" ->
            <<Ident("fn", "FunctionDeclaration", "id", 9),
              Ident(st.name, "FunctionDeclaration", "params", 12)>>
      [] st.form = "importnamed" ->
            <<Ident(st.name, "ImportSpecifier", "local", 9),
              Ident(st.name, "ImportSpecifier", "imported", 9)>>
      [] st.form = "importdefault" -> <<Ident(st.name, "ImportDefaultSpecifier", "local", 7)>>
      [] st.form = "requirenames" ->
            <<Ident(st.name, "ObjectProperty", "key", 8),
              Ident(st.name, "ObjectProperty", "value", 8),
              Ident("require", "CallExpression", "callee", 16)>>
      [] st.form = "requirewhole" ->
            <<Ident(st.name, "VariableDeclarator", "id", 6),
              Ident("require", "CallExpression", "callee", 12)>>
      [] st.form = "call" -> <<Ident(st.name, "CallExpression", "callee", 0)>>
      [] st.form = "new" -> <<Ident(st.name, "NewExpression", "callee", 4)>>
      [] st.form = "member" ->
            <<Ident(st.name, "MemberExpression", "object", 0),
              Ident("x", "MemberExpression", "property", 4)>>
      [] st.form = "argument" ->
            <<Ident("use", "CallExpression", "callee", 0),
              Ident(st.name, "CallExpression", "arguments", 4)>>
      [] OTHER -> <<>>

----------------------------------------------------------------------------
(* analyzer.js: discoverEntities, extractImports, findReferences *)

Entity(n, type, line) == [name |-> n, type |-> type, line |-> line, exported |-> FALSE]

\* the entities a statement on line `line` declares
EntitiesOf(st, line) ==
    CASE st.form \in {"function", "exportfunction", "exportdefault", "arrow"} ->
            <<Entity(st.name, "function", line)>>
      [] st.form \in {"class", "classexpr"} -> <<Entity(st.name, "class", line)>>
      [] st.form \in {"var", "requirewhole"} -> <<Entity(st.name, "variable", line)>>
      [] st.form = "extends" -> <<Entity("Sub", "class", line)>>
      [] st.form = "param" -> <<Entity("fn", "function", line)>>
      [] OTHER -> <<>>

\* the names a statement adds to exportedNames
ExportedNamesOf(st) ==
    IF st.form \in {"exportfunction", "exportdefault", "exportlist", "moduleexports",
                    "moduleexportsid"}
    THEN {st.name} ELSE {}

\* a marking that stops at the first entity of an exported name
discoverEntitiesMarkingFirst(filePath) ==
    LET src == parseFile(filePath)
        entities == Flatten([i \in 1..Len(src) |-> EntitiesOf(src[i], i)])
        exportedNames == UNION {ExportedNamesOf(src[i]) : i \in 1..Len(src)}
    IN  [i \in 1..Len(entities) |->
            IF /\ entities[i].name \in exportedNames
               /\ \A j \in 1..(i - 1) : entities[j].name # entities[i].name
            THEN [entities[i] EXCEPT !.exported = TRUE]
            ELSE entities[i]]

\* discoverEntities(filePath), for a file that parses
discoverEntities(filePath) ==
    LET src == parseFile(filePath)
        entities == Flatten([i \in 1..Len(src) |-> EntitiesOf(src[i], i)])
        exportedNames == UNION {ExportedNamesOf(src[i]) : i \in 1..Len(src)}
    IN  [i \in 1..Len(entities) |->
            IF entities[i].name \in exportedNames
            THEN [entities[i] EXCEPT !.exported = TRUE]
            ELSE entities[i]]

\* the import a statement makes, if it makes one
ImportsOf(st, filePath, root) ==
    IF st.form \in {"importnamed", "importdefault", "requirenames", "requirewhole"}
    THEN <<[source |-> st.spec,
            resolvedPath |-> resolveImport(st.spec, filePath, root),
            importedNames |-> IF st.form = "importdefault" THEN <<"default">>
                              ELSE <<st.name>>]>>
    ELSE <<>>

\* extractImports(filePath, projectRoot), for a file that parses
extractImports(filePath, root) ==
    LET src == parseFile(filePath)
    IN  Flatten([i \in 1..Len(src) |-> ImportsOf(src[i], filePath, root)])

\* the reference type of an identifier in the defining file
DefinerRefType(id) ==
    IF \/ id.parent = "FunctionDeclaration"
       \/ id.parent = "ClassDeclaration"
       \/ (id.parent = "VariableDeclarator" /\ id.slot = "id")
    THEN "definition"
    ELSE IF id.parent = "CallExpression" /\ id.slot = "callee" THEN "call"
    ELSE IF id.parent = "MemberExpression" /\ id.slot = "object" THEN "member-access"
    ELSE "reference"

\* the reference type of an identifier in a file that imports from the definer
ImporterRefType(id) ==
    IF \/ id.parent = "ImportSpecifier"
       \/ id.parent = "ImportDefaultSpecifier"
       \/ (id.parent = "ObjectPattern" \/ id.parent = "Property")
    THEN "import"
    ELSE IF id.parent = "CallExpression" /\ id.slot = "callee" THEN "call"
    ELSE IF id.parent = "NewExpression" /\ id.slot = "callee" THEN "instantiation"
    ELSE IF id.parent = "MemberExpression" /\ id.slot = "object" THEN "member-access"
    ELSE "reference"

\* a trace that keeps the occurrences of every file
KeepsEveryFile(filePath, definedIn, importsFromDefiner) == TRUE

\* whether findReferences keeps the occurrences of a file at all
KeepsReferences(filePath, definedIn, importsFromDefiner) ==
    filePath = definedIn \/ importsFromDefiner

\* the references one file contributes (the body of findReferences' loop)
FileReferences(entityName, definedIn, filePath, root) ==
    IF ~Parses(filePath) THEN <<>>
    ELSE
        LET src == parseFile(filePath)
            imports == extractImports(filePath, root)
            importsFromDefiner ==
                \E k \in 1..Len(imports) : imports[k].resolvedPath = definedIn
            RefsOfLine(i) ==
                LET ids == SelectSeq(IdentifiersOf(src[i]),
                                     LAMBDA id : id.name = entityName)
                IN  [j \in 1..Len(ids) |->
                        [file |-> getModuleName(filePath, root),
                         absolutePath |-> filePath,
                         line |-> i,
                         column |-> ids[j].column,
                         type |-> IF filePath = definedIn THEN DefinerRefType(ids[j])
                                  ELSE ImporterRefType(ids[j]),
                         code |-> src[i]]]
        IN  IF KeepsReferences(filePath, definedIn, importsFromDefiner)
            THEN Flatten([i \in 1..Len(src) |-> RefsOfLine(i)])
            ELSE <<>>

\* the position of the first file of allFiles that readFileSync cannot read,
\* Len + 1 when all can be read
FirstUnreadable(allFiles) ==
    LET bad == {i \in 1..Len(allFiles) : ~Readable(allFiles[i])}
    IN  IF bad = {} THEN Len(allFiles) + 1
        ELSE CHOOSE i \in bad : \A j \in bad : i <= j

\* a trace without the try around parseFile: a file that does not parse ends it
findReferencesUncaught(entityName, definedIn, allFiles, root) ==
    LET bad == {i \in 1..Len(allFiles) : ~Parses(allFiles[i])}
    IN  [thrown |-> bad # {},
         read |-> Range(allFiles),
         references |->
            IF bad # {} THEN <<>>
            ELSE Flatten([i \in 1..Len(allFiles) |->
                            FileReferences(entityName, definedIn, allFiles[i], root)])]

\* findReferences(entityName, definedIn, allFiles, projectRoot): throws at the
\* first file that cannot be read
findReferences(entityName, definedIn, allFiles, root) ==
    LET stop == FirstUnreadable(allFiles)
    IN  [thrown |-> stop <= Len(allFiles),
         read |-> {allFiles[i] : i \in 1..(IF stop <= Len(allFiles) THEN stop - 1
                                             ELSE Len(allFiles))},
         references |->
            IF stop <= Len(allFiles) THEN <<>>
            ELSE Flatten([i \in 1..Len(allFiles) |->
                            FileReferences(entityName, definedIn, allFiles[i], root)])]

----------------------------------------------------------------------------
(* analyzer.js: buildDependencyGraph and the ImpactAnalyzer class *)

\* a Map is a sequence of [key, value] in insertion order
MapKeys(m) == [i \in 1..Len(m) |-> m[i].key]
MapHas(m, k) == \E i \in 1..Len(m) : m[i].key = k

\* a set that appends to the list already stored under the key
MapSetAppending(m, k, v) ==
    IF MapHas(m, k)
    THEN [i \in 1..Len(m) |->
            IF m[i].key = k THEN [key |-> k, value |-> m[i].value \o v] ELSE m[i]]
    ELSE Append(m, [key |-> k, value |-> v])

\* Map.prototype.set: a key the map holds keeps its place, a new key goes last
MapSet(m, k, v) ==
    IF MapHas(m, k)
    THEN [i \in 1..Len(m) |-> IF m[i].key = k THEN [key |-> k, value |-> v] ELSE m[i]]
    ELSE Append(m, [key |-> k, value |-> v])

RECURSIVE Dedup(_)
\* [...new Set(s)]: the distinct elements of s in first-occurrence order
Dedup(s) ==
    IF s = <<>> THEN <<>>
    ELSE LET d == Dedup(SubSeq(s, 1, Len(s) - 1))
             x == s[Len(s)]
         IN  IF x \in Range(d) THEN d ELSE Append(d, x)

\* edges with one edge kept per target module
FileEdgesOncePerTarget(filePath, root) ==
    LET imports  == extractImports(filePath, root)
        resolved == SelectSeq(imports, LAMBDA imp : imp.resolvedPath # NULL)
        first    == {k \in 1..Len(resolved) :
                        \A j \in 1..(k - 1) : resolved[j].resolvedPath # resolved[k].resolvedPath}
        kept     == SelectSeq([k \in 1..Len(resolved) |-> <<k, resolved[k]>>],
                              LAMBDA e : e[1] \in first)
    IN  [k \in 1..Len(kept) |->
            [from |-> getModuleName(filePath, root),
             to |-> getModuleName(kept[k][2].resolvedPath, root),
             imports |-> kept[k][2].importedNames]]

\* the edges one file contributes to the dependency graph
FileEdges(filePath, root) ==
    LET imports  == extractImports(filePath, root)
        resolved == SelectSeq(imports, LAMBDA imp : imp.resolvedPath # NULL)
    IN  [k \in 1..Len(resolved) |->
            [from |-> getModuleName(filePath, root),
             to |-> getModuleName(resolved[k].resolvedPath, root),
             imports |-> resolved[k].importedNames]]

\* buildDependencyGraph(projectRoot): extractImports throws on a file that does
\* not parse, and nothing catches it
buildDependencyGraph(root) ==
    LET fs == getAllJsFiles(root)
    IN  IF \E i \in 1..Len(fs) : ~Parses(fs[i])
        THEN [thrown |-> TRUE, nodes |-> <<>>, edges |-> <<>>]
        ELSE [thrown |-> FALSE,
              nodes |-> [i \in 1..Len(fs) |->
                            [id |-> getModuleName(fs[i], root), file |-> fs[i]]],
              edges |-> Flatten([i \in 1..Len(fs) |-> FileEdges(fs[i], root)])]

RECURSIVE ScanFilesAborting(_, _, _)
\* a scan loop without the try: it ends at the first file that does not parse
ScanFilesAborting(map, fs, i) ==
    IF i > Len(fs) \/ ~Parses(fs[i]) THEN map
    ELSE ScanFilesAborting(
            MapSet(map, getModuleName(fs[i], projectRoot), discoverEntities(fs[i])),
            fs, i + 1)

RECURSIVE ScanFiles(_, _, _)
\* the loop of scan(): one entityMap.set per discovered file, from file i on
ScanFiles(map, fs, i) ==
    IF i > Len(fs) THEN map
    ELSE ScanFiles(
            MapSet(map, getModuleName(fs[i], projectRoot),
                   IF Parses(fs[i]) THEN discoverEntities(fs[i]) ELSE <<>>),
            fs, i + 1)

\* what scan() leaves in this.entityMap
ScannedMap(map, fs) == ScanFiles(map, fs, 1)

\* no file hint: undefined, or the empty string
NoHint == <<>>

\* the null findEntity returns
NotFound == [found |-> FALSE]

RECURSIVE Find(_, _, _)
\* entities.find((e) => e.name === entityName), from position j on: the
\* position of the first match, 0 for undefined
Find(entities, entityName, j) ==
    IF j > Len(entities) THEN 0
    ELSE IF entities[j].name = entityName THEN j
    ELSE Find(entities, entityName, j + 1)

RECURSIVE FindEntityFrom(_, _, _, _)
\* the loop of findEntity over the entries of the map, from entry i on
FindEntityFrom(map, entityName, fileName, i) ==
    IF i > Len(map) THEN NotFound
    ELSE IF fileName # NoHint /\ ~endsWith(map[i].key, fileName)
         THEN FindEntityFrom(map, entityName, fileName, i + 1)
    ELSE LET j == Find(map[i].value, entityName, 1)
         IN  IF j # 0
             THEN [found |-> TRUE,
                   name |-> map[i].value[j].name,
                   type |-> map[i].value[j].type,
                   line |-> map[i].value[j].line,
                   exported |-> map[i].value[j].exported,
                   module |-> map[i].key,
                   absolutePath |-> pathJoin(projectRoot, map[i].key)]
             ELSE FindEntityFrom(map, entityName, fileName, i + 1)

\* a lookup that does not skip the modules the hint rules out
findEntityIgnoringHint(map, entityName, fileName) ==
    FindEntityFrom(map, entityName, NoHint, 1)

\* findEntity(entityName, fileName)
findEntity(map, entityName, fileName) == FindEntityFrom(map, entityName, fileName, 1)

\* affected modules without the exclusion of the defining module
AffectedModulesAnyFile(references, entity) ==
    LET kept == SelectSeq(references, LAMBDA r : r.type # "definition")
    IN  Dedup([i \in 1..Len(kept) |-> kept[i].file])

\* the modules getImpact reports as affected
AffectedModules(references, entity) ==
    LET kept == SelectSeq(references,
                    LAMBDA r : r.type # "definition" /\ r.file # entity.module)
    IN  Dedup([i \in 1..Len(kept) |-> kept[i].file])

\* thresholds compared with < where the code compares with <=
SeverityStrict(n) ==
    IF n = 0 THEN "NONE"
    ELSE IF n < 2 THEN "LOW"
    ELSE IF n < 5 THEN "MEDIUM"
    ELSE "HIGH"

\* the severity getImpact derives from the number of affected modules
Severity(n) ==
    IF n = 0 THEN "NONE"
    ELSE IF n <= 2 THEN "LOW"
    ELSE IF n <= 5 THEN "MEDIUM"
    ELSE "HIGH"

\* getImpact past its null check: the trace and the report built from it
ImpactOf(entity, allFiles, entityName) ==
    LET traced == findReferences(entityName, entity.absolutePath, allFiles, projectRoot)
        affectedModules == AffectedModules(traced.references, entity)
    IN  IF traced.thrown THEN [result |-> "thrown", read |-> traced.read]
        ELSE [result |-> "report",
              read |-> traced.read,
              entity |-> entity,
              references |-> traced.references,
              affectedModules |-> affectedModules,
              severity |-> Severity(Len(affectedModules))]

\* a getImpact that reads the project's files before it looks at the entity
getImpactReadingFirst(map, allFiles, entityName, fileName) ==
    LET entity == findEntity(map, entityName, fileName)
    IN  IF entity = NotFound THEN [result |-> "null", read |-> Range(allFiles)]
        ELSE ImpactOf(entity, allFiles, entityName)

\* getImpact(entityName, fileName): null, a report, or the exception of
\* findReferences
getImpact(map, allFiles, entityName, fileName) ==
    LET entity == findEntity(map, entityName, fileName)
    IN  IF entity = NotFound THEN [result |-> "null", read |-> {}]
        ELSE ImpactOf(entity, allFiles, entityName)

----------------------------------------------------------------------------
(* The state machine: one analyzer over a project that changes on disk *)

MaxEdits == 1
MaxScans == 2
MaxInitFiles == 2

PathA == <<"p", "a", ".js">>
PathB == <<"p", "b", ".js">>
PathT == <<"p", "t", ".ts">>

Paths == {PathA, PathB, PathT}

\* the source texts a project file may hold
Definer   == <<ExportFunction("foo"), Call("foo")>>
Importer  == <<ImportNamed("foo", <<".", "a">>), RequireWhole("bar", <<".", "t">>),
               RequireNames("foo", <<".", "a", ".js">>), Call("foo"), Member("bar")>>
Broken    == <<FunctionDecl("bar"), SyntaxError>>

Sources == {Definer, Importer, Broken}

Names == {"foo", "bar"}
Hints == {NoHint, <<"a", ".js">>, <<".js">>}

File(p, src) == [path |-> p, src |-> src]

InsertAt(s, i, x) == SubSeq(s, 1, i - 1) \o <<x>> \o SubSeq(s, i, Len(s))
RemoveAt(s, i) == SubSeq(s, 1, i - 1) \o SubSeq(s, i + 1, Len(s))

Called(name, args) == [name |-> name, args |-> args]
NoRet == [result |-> "none"]

\* the analyzer reads the files getAllJsFiles selects and no others, so one
\* text stands for every text of a file it does not select
OtherText == <<VarDecl("foo")>>
SourcesAt(p) == IF p[Len(p)] \in GlobExts THEN Sources ELSE {OtherText}

Files == {File(p, src) : p \in Paths, src \in Sources \cup {OtherText}}

\* the projects an analyzer may be constructed over: at most MaxInitFiles files
InitialProjects ==
    {d \in UNION {[1..n -> Files] : n \in 0..MaxInitFiles} :
        /\ \A i \in 1..Len(d) : d[i].src \in SourcesAt(d[i].path)
        /\ \A i, j \in 1..Len(d) : i # j => d[i].path # d[j].path}

\* new ImpactAnalyzer(projectRoot)
Init ==
    /\ disk \in InitialProjects
    /\ edits = 0
    /\ files = <<>>
    /\ entityMap = <<>>
    /\ scans = 0
    /\ op = Called("new", <<>>)
    /\ ret = NoRet
    /\ reads = {}

\* a file is created: the directory lists it at some position
CreateFile(p, src, i) ==
    /\ edits < MaxEdits
    /\ ~isFile(p)
    /\ src \in SourcesAt(p)
    /\ i \in 1..(Len(disk) + 1)
    /\ disk' = InsertAt(disk, i, File(p, src))
    /\ edits' = edits + 1
    /\ op' = Called("edit", <<>>)
    /\ ret' = NoRet
    /\ reads' = {}
    /\ UNCHANGED <<files, entityMap, scans>>

\* a file is rewritten in place
WriteFile(i, src) ==
    /\ edits < MaxEdits
    /\ i \in 1..Len(disk)
    /\ disk[i].src # src
    /\ src \in SourcesAt(disk[i].path)
    /\ disk' = [disk EXCEPT ![i].src = src]
    /\ edits' = edits + 1
    /\ op' = Called("edit", <<>>)
    /\ ret' = NoRet
    /\ reads' = {}
    /\ UNCHANGED <<files, entityMap, scans>>

\* a file is deleted
RemoveFile(i) ==
    /\ edits < MaxEdits
    /\ i \in 1..Len(disk)
    /\ disk' = RemoveAt(disk, i)
    /\ edits' = edits + 1
    /\ op' = Called("edit", <<>>)
    /\ ret' = NoRet
    /\ reads' = {}
    /\ UNCHANGED <<files, entityMap, scans>>

\* ImpactAnalyzer.scan()
Scan ==
    /\ scans < MaxScans
    /\ LET fs == getAllJsFiles(projectRoot)
           map == ScannedMap(entityMap, fs)
       IN  /\ files' = fs
           /\ entityMap' = map
           /\ ret' = [result |-> "scan", fileCount |-> Len(fs), entityMap |-> map]
           /\ reads' = Range(fs)
    /\ scans' = scans + 1
    /\ op' = Called("scan", <<>>)
    /\ UNCHANGED <<disk, edits>>

\* ImpactAnalyzer.findEntity(entityName, fileName)
FindEntity(entityName, fileName) ==
    /\ ret' = [result |-> "entity", entity |-> findEntity(entityMap, entityName, fileName)]
    /\ reads' = {}
    /\ op' = Called("findEntity", <<entityName, fileName>>)
    /\ UNCHANGED <<disk, edits, files, entityMap, scans>>

\* ImpactAnalyzer.getImpact(entityName, fileName)
GetImpact(entityName, fileName) ==
    /\ LET r == getImpact(entityMap, files, entityName, fileName)
       IN  /\ ret' = r
           /\ reads' = r.read
    /\ op' = Called("getImpact", <<entityName, fileName>>)
    /\ UNCHANGED <<disk, edits, files, entityMap, scans>>

\* a getDependencyGraph that takes the files it lists as the new snapshot
GetDependencyGraphRefreshing ==
    /\ LET g == buildDependencyGraph(projectRoot)
       IN  /\ ret' = [result |-> IF g.thrown THEN "thrown" ELSE "graph",
                      nodes |-> g.nodes, edges |-> g.edges]
           /\ reads' = Range(getAllJsFiles(projectRoot))
    /\ files' = getAllJsFiles(projectRoot)
    /\ op' = Called("getDependencyGraph", <<>>)
    /\ UNCHANGED <<disk, edits, entityMap, scans>>

\* ImpactAnalyzer.getDependencyGraph()
GetDependencyGraph ==
    /\ LET g == buildDependencyGraph(projectRoot)
       IN  /\ ret' = [result |-> IF g.thrown THEN "thrown" ELSE "graph",
                      nodes |-> g.nodes, edges |-> g.edges]
           /\ reads' = Range(getAllJsFiles(projectRoot))
    /\ op' = Called("getDependencyGraph", <<>>)
    /\ UNCHANGED <<disk, edits, files, entityMap, scans>>

Next ==
    \/ \E p \in Paths, src \in Sources \cup {OtherText}, i \in 1..(Cardinality(Paths) + 1) :
            CreateFile(p, src, i)
    \/ \E i \in 1..Cardinality(Paths), src \in Sources : WriteFile(i, src)
    \/ \E i \in 1..Cardinality(Paths) : RemoveFile(i)
    \/ Scan
    \/ \E n \in Names, h \in Hints : FindEntity(n, h)
    \/ \E n \in Names, h \in Hints : GetImpact(n, h)
    \/ GetDependencyGraph

Spec == Init /\ [][Next]_vars

----------------------------------------------------------------------------
(* The analyzer over a fixed project: a defining module and the modules      *)
(* around it                                                               *)

MaxFiles == 7
MaxVaried == 3

ModNames == <<"a", "b", "c", "d", "e", "f", "g", "h", "i">>
ModPath(i) == <<"p", ModNames[i], ".js">>

\* utils.js of the README: function foo() {} ... module.exports = { foo };
Exporter      == <<FunctionDecl("foo"), ModuleExports("foo")>>
\* the ways a module imports foo from ./a and calls it once
NamedImporter   == <<ImportNamed("foo", <<".", "a">>), Call("foo")>>
RequireImporter == <<RequireNames("foo", <<".", "a">>), Call("foo")>>
DefaultImporter == <<ImportDefault("foo", <<".", "a">>), Call("foo")>>
\* a module with a foo of its own and no import
Unrelated     == <<VarDecl("foo"), Call("foo")>>
\* a module that imports something else from ./a
OtherImporter == <<ImportNamed("bar", <<".", "a">>), Call("bar")>>

VariedSources  == {NamedImporter, RequireImporter, DefaultImporter, Unrelated, OtherImporter}
UniformSources == {DefaultImporter, Unrelated}

Reverse(s) == [i \in 1..Len(s) |-> s[Len(s) + 1 - i]]

\* a.js exports foo; n - 1 more modules follow it, of every shape in a project
\* of up to MaxVaried files and of two shapes in a larger one; the directory
\* lists a.js first or last
Projects ==
    LET Around(n) == [2..n -> IF n <= MaxVaried THEN VariedSources ELSE UniformSources]
        Listing(n, around) ==
            [i \in 1..n |-> File(ModPath(i), IF i = 1 THEN Exporter ELSE around[i])]
    IN  UNION {{Listing(n, around), Reverse(Listing(n, around))} :
                    <<n, around>> \in UNION {{n} \X Around(n) : n \in 1..MaxFiles}}

InitProject ==
    /\ disk \in Projects
    /\ edits = 0
    /\ files = <<>>
    /\ entityMap = <<>>
    /\ scans = 0
    /\ op = Called("new", <<>>)
    /\ ret = NoRet
    /\ reads = {}

ProjectHints == {NoHint, <<"a", ".js">>}

NextProject ==
    \/ Scan
    \/ \E n \in Names, h \in ProjectHints : FindEntity(n, h)
    \/ \E n \in Names, h \in ProjectHints : GetImpact(n, h)
    \/ GetDependencyGraph

SpecProject == InitProject /\ [][NextProject]_vars

----------------------------------------------------------------------------
(* Properties *)

IsReport == op.name = "getImpact" /\ ret.result = "report"

\* the statements that import from a module
ImportForms == {"importnamed", "importdefault", "requirenames", "requirewhole"}

\* file f holds an import that resolves to the file `target`
ImportsFrom(f, target) ==
    \E i \in 1..Len(FileAt(f).src) :
        /\ FileAt(f).src[i].form \in ImportForms
        /\ resolveImport(FileAt(f).src[i].spec, f, projectRoot) = target

\* the number of positions of s that satisfy Test
Count(s, Test(_)) == Cardinality({k \in 1..Len(s) : Test(s[k])})

\* C1: in every report of getImpact, affectedModules is the duplicate-free
\* list, in first-occurrence order of the references, of the modules with a
\* reference that is not a 'definition' and not in the defining module; the
\* defining module is never in it.
AffectedModulesExact ==
    IsReport =>
        LET refs == ret.references
            aff  == ret.affectedModules
            Q(k) == refs[k].type # "definition" /\ refs[k].file # ret.entity.module
            First(m) == CHOOSE k \in 1..Len(refs) :
                            /\ Q(k) /\ refs[k].file = m
                            /\ \A j \in 1..(k - 1) : ~(Q(j) /\ refs[j].file = m)
        IN  /\ \A i, j \in 1..Len(aff) : i # j => aff[i] # aff[j]
            /\ Range(aff) = {refs[k].file : k \in {x \in 1..Len(refs) : Q(x)}}
            /\ \A i, j \in 1..Len(aff) : i < j => First(aff[i]) < First(aff[j])
            /\ ret.entity.module \notin Range(aff)

\* a report with two affected modules, several references in one of them, and
\* a non-definition reference in the defining module
AffectedModulesExactWitness ==
    /\ IsReport
    /\ Len(ret.affectedModules) >= 2
    /\ Len(ret.references) > Len(ret.affectedModules) + 1
    /\ \E r \in Range(ret.references) :
            r.file = ret.entity.module /\ r.type # "definition"

\* C2: in every report of getImpact the severity is decided by the number n of
\* affected modules: 0 NONE, 1..2 LOW, 3..5 MEDIUM, 6 and more HIGH.
SeverityByCount ==
    IsReport =>
        LET n == Len(ret.affectedModules)
        IN  /\ (n = 0) => ret.severity = "NONE"
            /\ (n \in 1..2) => ret.severity = "LOW"
            /\ (n \in 3..5) => ret.severity = "MEDIUM"
            /\ (n >= 6) => ret.severity = "HIGH"

\* a report with six affected modules
SeverityByCountWitness ==
    IsReport /\ Len(ret.affectedModules) = 6 /\ ret.severity = "HIGH"

\* the statements that declare a name
DeclForms == {"function", "class", "var", "arrow", "classexpr",
              "exportfunction", "exportdefault"}

\* the defining file declares the entity once and imports nothing, and each of
\* the k other files of the project (k in 1..2) is an import of the entity by
\* name from the defining file followed by one call of it
ImportAndCallScenario ==
    LET n   == op.args[1]
        def == ret.entity.absolutePath
    IN  /\ files = getAllJsFiles(projectRoot)
        /\ def \in Range(files)
        /\ Len(files) - 1 \in 1..2
        /\ Count(FileAt(def).src, LAMBDA st : st.form \in DeclForms /\ st.name = n) = 1
        /\ Count(FileAt(def).src, LAMBDA st : st.form \in ImportForms) = 0
        /\ \A f \in Range(files) \ {def} :
                /\ Len(FileAt(f).src) = 2
                /\ FileAt(f).src[1].form \in {"importnamed", "requirenames"}
                /\ FileAt(f).src[1].name = n
                /\ resolveImport(FileAt(f).src[1].spec, f, projectRoot) = def
                /\ FileAt(f).src[2] = Call(n)

\* C3: in that scenario getImpact reports the k importing modules in scan
\* order, severity LOW, one 'definition' reference in the defining file and,
\* in each importing file, exactly one 'import' and exactly one 'call'.
ImportAndCallOnce ==
    (IsReport /\ ImportAndCallScenario) =>
        LET def    == ret.entity.absolutePath
            others == SelectSeq(files, LAMBDA f : f # def)
            refs   == ret.references
        IN  /\ ret.affectedModules =
                    [i \in 1..Len(others) |-> getModuleName(others[i], projectRoot)]
            /\ ret.severity = "LOW"
            /\ Count(refs, LAMBDA r : r.type = "definition") = 1
            /\ Count(refs, LAMBDA r : r.type = "definition" /\ r.absolutePath = def) = 1
            /\ \A f \in Range(others) :
                    /\ Count(refs, LAMBDA r : r.absolutePath = f /\ r.type = "import") = 1
                    /\ Count(refs, LAMBDA r : r.absolutePath = f /\ r.type = "call") = 1

\* C4: in every graph getDependencyGraph returns, the from and the to of every
\* edge are ids of nodes of that graph.
EdgesPointAtNodes ==
    (op.name = "getDependencyGraph" /\ ret.result = "graph") =>
        \A e \in Range(ret.edges) :
            /\ \E n \in Range(ret.nodes) : n.id = e.to
            /\ \E n \in Range(ret.nodes) : n.id = e.from

\* C5: getImpact's trace holds no reference of a file that is neither the
\* defining file nor a file with an import that resolves to the defining file.
ReferencesOnlyFromDefinerOrImporters ==
    IsReport =>
        LET def == ret.entity.absolutePath
        IN  /\ \A r \in Range(ret.references) :
                    /\ r.file = getModuleName(r.absolutePath, projectRoot)
                    /\ r.absolutePath = def \/ ImportsFrom(r.absolutePath, def)
            /\ \A f \in Range(files) :
                    (f # def /\ ~ImportsFrom(f, def)) =>
                        Count(ret.references, LAMBDA r : r.absolutePath = f) = 0

\* a report with references, over a project with a file that names the entity
\* but neither defines it for this report nor imports from the defining file
ReferencesOnlyFromDefinerOrImportersWitness ==
    /\ IsReport
    /\ Len(ret.references) > 1
    /\ \E f \in Range(files) :
            /\ f # ret.entity.absolutePath
            /\ ~ImportsFrom(f, ret.entity.absolutePath)
            /\ \E i \in 1..Len(FileAt(f).src) :
                    \E id \in Range(IdentifiersOf(FileAt(f).src[i])) : id.name = op.args[1]

\* entry i of the entity map is skipped for the hint, and it holds the name
Skipped(i, fileName) == fileName # NoHint /\ ~endsWith(entityMap[i].key, fileName)
Holds(i, entityName) ==
    \E j \in 1..Len(entityMap[i].value) : entityMap[i].value[j].name = entityName

\* the entries findEntity may answer from
Candidates(entityName, fileName) ==
    {i \in 1..Len(entityMap) : ~Skipped(i, fileName) /\ Holds(i, entityName)}

\* C6: findEntity returns the first entity of that name of the first module,
\* in the map's order, that is not skipped for the hint and has one, with the
\* module attached; it returns not-found exactly when there is no such module.
FindEntityFirstMatch ==
    op.name = "findEntity" =>
        LET n     == op.args[1]
            hint  == op.args[2]
            cands == Candidates(n, hint)
        IN  /\ (cands = {}) <=> (ret.entity = NotFound)
            /\ cands # {} =>
                LET i == CHOOSE c \in cands : \A d \in cands : c <= d
                    es == entityMap[i].value
                    j == CHOOSE a \in 1..Len(es) :
                            es[a].name = n /\ \A b \in 1..(a - 1) : es[b].name # n
                IN  /\ ret.entity.module = entityMap[i].key
                    /\ ret.entity.name = n
                    /\ ret.entity.type = es[j].type
                    /\ ret.entity.line = es[j].line
                    /\ ret.entity.exported = es[j].exported

\* findEntity with a hint answers from a module behind one that has the name
\* and is skipped
FindEntityFirstMatchWitness ==
    /\ op.name = "findEntity"
    /\ op.args[2] # NoHint
    /\ ret.entity # NotFound
    /\ \E i \in 1..Len(entityMap) :
            /\ Skipped(i, op.args[2]) /\ Holds(i, op.args[1])
            /\ \E k \in (i + 1)..Len(entityMap) : entityMap[k].key = ret.entity.module

\* C7: getImpact for a name findEntity does not resolve returns the not-found
\* result, throws nothing and reads no file.
NotFoundIsAValue ==
    (op.name = "getImpact" /\ Candidates(op.args[1], op.args[2]) = {}) =>
        /\ ret.result = "null"
        /\ reads = {}

\* not found after a scan that discovered files, and not found before any scan
\* of a project that has files
NotFoundIsAValueWitness ==
    /\ op.name = "getImpact"
    /\ ret.result = "null"
    /\ \/ scans > 0 /\ files # <<>> /\ files = getAllJsFiles(projectRoot)
       \/ scans = 0 /\ getAllJsFiles(projectRoot) # <<>>

\* C8: after every scan the entity map holds one entry per discovered file and
\* none for any other module, so fileCount is the number of its entries.
EntityMapMatchesLatestScan ==
    op.name = "scan" =>
        /\ Range(MapKeys(ret.entityMap)) =
                {getModuleName(f, projectRoot) : f \in Range(files)}
        /\ ret.fileCount = Len(ret.entityMap)

\* C9: a scan that directly follows a scan, the project unchanged in between,
\* returns what the first returned: the same fileCount and the same entity map.
RescanIdempotent == [][(op.name = "scan" /\ op'.name = "scan") => ret' = ret]_vars

\* a second scan of a project whose files hold entities, nothing edited
RescanIdempotentWitness ==
    /\ op.name = "scan"
    /\ scans = 2
    /\ edits = 0
    /\ ret.fileCount >= 1
    /\ \E e \in Range(ret.entityMap) : e.value # <<>>

\* C10: after every scan the i-th entry of the entity map is the module of the
\* i-th discovered file.
EntityMapInDiscoveryOrder ==
    op.name = "scan" =>
        MapKeys(ret.entityMap) =
            [i \in 1..Len(files) |-> getModuleName(files[i], projectRoot)]

\* C11: scan never aborts on a file: a discovered file that fails in entity
\* extraction gets an empty entity list, every other discovered file gets its
\* own entity list, and scan returns.
ScanSurvivesBadFiles ==
    op.name = "scan" =>
        /\ ret.result = "scan"
        /\ ret.fileCount = Len(files)
        /\ \A f \in Range(files) :
                \E e \in Range(ret.entityMap) :
                    /\ e.key = getModuleName(f, projectRoot)
                    /\ e.value = IF Parses(f) THEN discoverEntities(f) ELSE <<>>

\* a scan over a file that does not parse, listed before a file with entities
ScanSurvivesBadFilesWitness ==
    /\ op.name = "scan"
    /\ \E i, j \in 1..Len(files) :
            /\ i < j
            /\ ~Parses(files[i])
            /\ Parses(files[j]) /\ discoverEntities(files[j]) # <<>>

\* C12: in getImpact's trace a file that does not parse contributes nothing and
\* does not end the trace: an entity that is found, over files that can all be
\* read, gives a report whose references are those of the trace without the
\* unparseable files.
TraceSkipsBadFiles ==
    (/\ op.name = "getImpact"
     /\ Candidates(op.args[1], op.args[2]) # {}
     /\ \A f \in Range(files) : Readable(f)) =>
        /\ ret.result = "report"
        /\ LET good == SelectSeq(files, Parses)
           IN  /\ ret.references =
                    Flatten([i \in 1..Len(good) |->
                        FileReferences(op.args[1], ret.entity.absolutePath, good[i],
                                       projectRoot)])
               /\ \A r \in Range(ret.references) : Parses(r.absolutePath)

\* a report with references from a file listed after one that does not parse
TraceSkipsBadFilesWitness ==
    /\ IsReport
    /\ \E i, j \in 1..Len(files) :
            /\ i < j
            /\ ~Parses(files[i])
            /\ \E r \in Range(ret.references) : r.absolutePath = files[j]

\* C13: getDependencyGraph returns a graph also when a discovered file does not
\* parse; that file gives no edges and the other files give theirs.
GraphSurvivesBadFiles ==
    op.name = "getDependencyGraph" =>
        /\ ret.result = "graph"
        /\ LET good == SelectSeq(getAllJsFiles(projectRoot), Parses)
           IN  ret.edges = Flatten([i \in 1..Len(good) |-> FileEdges(good[i], projectRoot)])

\* the edge an import statement of file f stands for, if it resolves
EdgeOf(st, f) ==
    IF st.form \in ImportForms /\ resolveImport(st.spec, f, projectRoot) # NULL
    THEN <<[from |-> getModuleName(f, projectRoot),
            to |-> getModuleName(resolveImport(st.spec, f, projectRoot), projectRoot),
            imports |-> IF st.form = "importdefault" THEN <<"default">> ELSE <<st.name>>]>>
    ELSE <<>>

\* C14: a graph buildDependencyGraph returns has one node per discovered file
\* and, file by file and import by import, one edge per import whose specifier
\* resolves (from the importing module, to the module of the resolved path,
\* with the import's names), none for an unresolved import, and as many edges
\* between two modules as there are imports between them.
GraphIsImportsThatResolve ==
    (op.name = "getDependencyGraph" /\ ret.result = "graph") =>
        LET fs == getAllJsFiles(projectRoot)
        IN  /\ ret.nodes = [i \in 1..Len(fs) |->
                                [id |-> getModuleName(fs[i], projectRoot), file |-> fs[i]]]
            /\ ret.edges =
                    Flatten([i \in 1..Len(fs) |->
                        Flatten([k \in 1..Len(FileAt(fs[i]).src) |->
                            EdgeOf(FileAt(fs[i]).src[k], fs[i])])])

\* a graph with two edges between the same two modules, over a file with an
\* import that does not resolve
GraphIsImportsThatResolveWitness ==
    /\ op.name = "getDependencyGraph" /\ ret.result = "graph"
    /\ \E i, j \in 1..Len(ret.edges) :
            i # j /\ ret.edges[i].from = ret.edges[j].from /\ ret.edges[i].to = ret.edges[j].to
    /\ \E f \in Range(getAllJsFiles(projectRoot)) :
            \E k \in 1..Len(FileAt(f).src) :
                /\ FileAt(f).src[k].form \in ImportForms
                /\ resolveImport(FileAt(f).src[k].spec, f, projectRoot) = NULL

----------------------------------------------------------------------------
(* resolveImport over file systems with directories, index files and several
   extensions *)

MaxResolverFiles == 3

PathImporter    == <<"p", "b", ".js">>
PathSubImporter == <<"p", "lib", "c", ".js">>

\* what may lie beside the importing files: a file `a`, a.js, a.ts, the index
\* files of a directory `a`, and files under directories NAMED a.js and
\* a/index.js
ResolverPaths ==
    << <<"p", "a">>, <<"p", "a", ".js">>, <<"p", "a", ".ts">>,
       <<"p", "a", "index", ".js">>, <<"p", "a", "index", ".ts">>,
       <<"p", "a", ".js", "x", ".js">>, <<"p", "a", "index", ".js", "y", ".js">> >>

\* no path is a regular file and a directory at once
Consistent(ps) ==
    \A q, r \in ps :
        ~(IsPrefix(q, r) /\ Len(q) < Len(r) /\ r[Len(q) + 1] \notin ExtTokens)

ResolverDisks ==
    {[i \in 1..2 |-> File(<<PathImporter, PathSubImporter>>[i], OtherText)]
        \o [i \in 1..Len(SelectSeq(ResolverPaths, LAMBDA q : q \in ps)) |->
                File(SelectSeq(ResolverPaths, LAMBDA q : q \in ps)[i], OtherText)] :
     ps \in {qs \in SUBSET Range(ResolverPaths) :
                Cardinality(qs) <= MaxResolverFiles /\ Consistent(qs)}}

Specifiers ==
    {<<".", "a">>, <<".", "a", ".js">>, <<"..", "a">>, <<"/", "p", "a">>,
     <<"a">>, <<"lodash">>}

InitResolve ==
    /\ disk \in ResolverDisks
    /\ edits = 0
    /\ files = <<>>
    /\ entityMap = <<>>
    /\ scans = 0
    /\ op = Called("new", <<>>)
    /\ ret = NoRet
    /\ reads = {}

Resolve(specifier, fromFile) ==
    /\ op' = Called("resolveImport", <<specifier, fromFile>>)
    /\ ret' = [result |-> "resolved",
               path |-> resolveImport(specifier, fromFile, projectRoot)]
    /\ UNCHANGED <<disk, edits, files, entityMap, scans, reads>>

NextResolve ==
    \E specifier \in Specifiers, fromFile \in {PathImporter, PathSubImporter} :
        Resolve(specifier, fromFile)

SpecResolve == InitResolve /\ [][NextResolve]_vars

\* the resolution order as the documentation states it
ResolveReference(specifier, fromFile) ==
    LET base  == pathResolve(dirname(fromFile), specifier)
        ext   == {i \in 1..Len(extensions) : existsSync(Append(base, extensions[i]))}
        index == {i \in 1..Len(extensions) :
                    existsSync(base \o <<"index", extensions[i]>>)}
        Min(S) == CHOOSE i \in S : \A j \in S : i <= j
    IN  IF Head(specifier) \notin {".", "..", "/"} THEN NULL
        ELSE IF isFile(base) THEN base
        ELSE IF ext # {} THEN Append(base, extensions[Min(ext)])
        ELSE IF isDirectory(base) /\ index # {}
             THEN base \o <<"index", extensions[Min(index)]>>
        ELSE NULL

\* C15: resolveImport returns what the stated order gives: nothing for a
\* specifier that starts with neither '.' nor '/'; else the base path if it is
\* a regular file, else the base path with the first extension that exists,
\* else the first index file that exists when the base path is a directory,
\* else nothing.
ResolveFollowsOrder ==
    op.name = "resolveImport" => ret.path = ResolveReference(op.args[1], op.args[2])

\* an extension candidate chosen although an index file and a later extension
\* exist too
ResolveFollowsOrderWitness ==
    /\ op.name = "resolveImport"
    /\ op.args = <<<<".", "a">>, PathImporter>>
    /\ ret.path = <<"p", "a", ".ts">>
    /\ isFile(<<"p", "a", "index", ".js">>)

\* C19: a path resolveImport returns names an existing regular file, never a
\* directory.
ResolvedIsRegularFile ==
    (op.name = "resolveImport" /\ ret.path # NULL) => isFile(ret.path)

----------------------------------------------------------------------------
(* One defining file and one importing file, line by line *)

MaxLines == 2

\* the lines of a defining file.  A declaration line that is not an export
\* stands in a block of its own, which the traversals visit like the top level
DefinerLines ==
    {FunctionDecl("foo"), ClassDecl("foo"), VarDecl("foo"), ArrowDecl("foo"),
     ClassExprDecl("foo"), ExportFunction("foo"), ExportDefault("foo"),
     ExportList("foo"), ModuleExports("foo"), ModuleExportsId("foo"),
     Call("foo"), New("foo"), Member("foo"), Argument("foo"),
     ClassExtends("foo"), FunctionParam("foo"),
     VarDecl("bar"), ExportList("bar")}

\* the texts of up to MaxLines lines; two export declarations of one name do
\* not parse together
DefinerTexts ==
    {src \in UNION {[1..n -> DefinerLines] : n \in 1..MaxLines} :
        \A i, j \in 1..Len(src) :
            (/\ i # j
             /\ src[i].form \in {"exportfunction", "exportdefault"}
             /\ src[j].form \in {"exportfunction", "exportdefault"})
                => src[i].name # src[j].name}

\* the lines of a file that imports from ./a: one import, one use
ImporterTexts ==
    {<<imp, use>> :
        imp \in {ImportNamed("foo", <<".", "a">>), ImportDefault("foo", <<".", "a">>),
                 RequireNames("foo", <<".", "a">>), RequireWhole("foo", <<".", "a">>)},
        use \in {Call("foo"), New("foo"), Member("foo"), Argument("foo"), VarDecl("foo")}}

TraceProjects ==
    {<<File(PathA, src), File(PathB, NamedImporter)>> : src \in DefinerTexts}
        \cup {<<File(PathA, Exporter), File(PathB, src)>> : src \in ImporterTexts}

InitTrace ==
    /\ disk \in TraceProjects
    /\ edits = 0
    /\ files = <<>>
    /\ entityMap = <<>>
    /\ scans = 0
    /\ op = Called("new", <<>>)
    /\ ret = NoRet
    /\ reads = {}

NextTrace ==
    \/ Scan
    \/ \E n \in Names : GetImpact(n, NoHint)

SpecTrace == InitTrace /\ [][NextTrace]_vars

\* the identifier a reference stands for is the name its statement declares
Declares(r) ==
    \E id \in Range(IdentifiersOf(r.code)) :
        /\ id.name = op.args[1] /\ id.column = r.column
        /\ id.slot = "id"
        /\ id.parent \in {"FunctionDeclaration", "ClassDeclaration", "VariableDeclarator"}

\* C16: in the defining file an occurrence of the entity's name is a
\* 'definition' exactly when it is the name a function declaration, class
\* declaration or variable declarator declares; every other occurrence is a
\* 'call', 'member-access' or 'reference'.
DefinitionIsDeclaredName ==
    IsReport =>
        \A r \in Range(ret.references) :
            r.absolutePath = ret.entity.absolutePath =>
                /\ r.type = "definition" <=> Declares(r)
                /\ r.type \in {"definition", "call", "member-access", "reference"}

\* the type the position of a name in an importing file stands for
PositionType(st) ==
    CASE st.form \in {"importnamed", "importdefault", "requirenames"} -> "import"
      [] st.form = "call" -> "call"
      [] st.form = "new" -> "instantiation"
      [] st.form = "member" -> "member-access"
      [] OTHER -> "reference"

\* C17: in a file that imports from the defining file an occurrence of the
\* entity's name is an 'import' when it sits in an import specifier or in the
\* destructuring pattern of a require of the defining module, and otherwise a
\* 'call', 'instantiation', 'member-access' or 'reference' by its position.
ImportIsBindingOccurrence ==
    IsReport =>
        \A r \in Range(ret.references) :
            r.absolutePath # ret.entity.absolutePath => r.type = PositionType(r.code)

\* the name a statement declares, <<>> when it declares none
DeclaredName(st) ==
    CASE st.form \in DeclForms \cup {"requirewhole"} -> <<st.name>>
      [] st.form = "extends" -> <<"Sub">>
      [] st.form = "param" -> <<"fn">>
      [] OTHER -> <<>>

\* the names a file exports
ExportNameSet(src) ==
    {src[k].name : k \in {i \in 1..Len(src) :
        src[i].form \in {"exportfunction", "exportdefault", "exportlist",
                         "moduleexports", "moduleexportsid"}}}

\* C18: the entities of a file are its declarations, one each and in source
\* order, and an entity is marked exported exactly when its name is in the
\* file's set of export names, whichever declaration of that name it is.
ExportedIffNameExported ==
    scans > 0 =>
        \A f \in Range(files) :
            \E e \in Range(entityMap) :
                /\ e.key = getModuleName(f, projectRoot)
                /\ LET src   == FileAt(f).src
                       lines == SelectSeq([i \in 1..Len(src) |-> i],
                                          LAMBDA i : DeclaredName(src[i]) # <<>>)
                   IN  /\ Len(e.value) = Len(lines)
                       /\ \A i \in 1..Len(lines) :
                            /\ e.value[i].name = DeclaredName(src[lines[i]])[1]
                            /\ e.value[i].line = lines[i]
                            /\ e.value[i].exported
                                    <=> e.value[i].name \in ExportNameSet(src)

\* a scanned file with two entities of one exported name, the second of them
\* declared by a line that exports nothing
ExportedIffNameExportedWitness ==
    /\ scans > 0
    /\ \E e \in Range(entityMap) :
            /\ Len(e.value) = 2
            /\ e.value[1].name = e.value[2].name
            /\ e.value[1].exported /\ e.value[2].exported
            /\ FileAt(pathJoin(projectRoot, e.key)).src[2].form = "var"

\* C20: findEntity, getImpact and getDependencyGraph leave the analyzer's
\* snapshot as it was: files and entityMap are the same after the call as
\* before it, whatever the call returns.
QueriesKeepSnapshot ==
    [][op'.name \in {"findEntity", "getImpact", "getDependencyGraph"}
            => (files' = files /\ entityMap' = entityMap)]_vars

\* getDependencyGraph has run over a disk that no longer matches the snapshot
QueriesKeepSnapshotWitness ==
    /\ op.name = "getDependencyGraph"
    /\ files # <<>> /\ entityMap # <<>>
    /\ files # getAllJsFiles(projectRoot)

====
